---- MODULE Spec2Model ----
(***************************************************************************)
(* Model of the Railway autoscaler (src/main.go): loadConfig, the control  *)
(* loop of main, fetch, doGraphQL, decide and scale.                       *)
(*                                                                         *)
(* Time is an integer number of seconds.  CPU percentages are held in      *)
(* fixed point with denominator Scale, so that the mean sum/count of the   *)
(* samples is exact; a threshold t is compared as t * Scale.               *)
(***************************************************************************)
EXTENDS Integers, Sequences, FiniteSets, TLC

(* ------------------------------ bounds --------------------------------- *)
\* the run is observed up to this many seconds after startup
MaxTime == 240
\* a remote call takes 1..MaxCallTicks poll-interval units of time
MaxCallTicks == 1
\* the platform reports a replica count in 0..MaxReported
MaxReported == 6
\* a metrics response carries at most this many instances and at most this
\* many metric points over all of them
MaxSamples == 1
\* at most this many of the optional environment variables are set
MaxEnvSet == 2

(* ----------------------- environment and parsing ----------------------- *)
RequiredKeys == {"RAILWAY_TOKEN", "SERVICE_ID"}
OptionalKeys == {"CPU_HIGH", "CPU_LOW", "MIN_REPLICAS", "MAX_REPLICAS",
                 "COOLDOWN", "POLL_INTERVAL"}
EnvKeys == RequiredKeys \cup OptionalKeys

\* the values a variable may hold: "" is unset, "abc" parses as nothing
EnvValues(k) ==
    CASE k = "RAILWAY_TOKEN" -> {"", "prj_1"}
      [] k = "SERVICE_ID"    -> {"", "svc_1"}
      [] k = "CPU_HIGH"      -> {"", "abc", "-1"}
      [] k = "CPU_LOW"       -> {"", "-5"}
      [] k = "MIN_REPLICAS"  -> {"", "abc"}
      [] k = "MAX_REPLICAS"  -> {"", "3"}
      [] k = "COOLDOWN"      -> {"", "60s"}
      [] k = "POLL_INTERVAL" -> {"", "abc"}

Envs ==
    {e \in [EnvKeys -> {"", "abc", "prj_1", "svc_1", "-1", "-5", "3", "60s"}] :
        /\ \A k \in EnvKeys : e[k] \in EnvValues(k)
        /\ Cardinality({k \in OptionalKeys : e[k] # ""}) <= MaxEnvSet}

\* strconv.ParseFloat(v, 64): (value, error); 0 with a syntax error
ParseFloat(v) ==
    CASE v = "-1" -> [val |-> -1, err |-> FALSE]
      [] v = "-5" -> [val |-> -5, err |-> FALSE]
      [] v = "3"  -> [val |-> 3, err |-> FALSE]
      [] OTHER    -> [val |-> 0, err |-> TRUE]

\* strconv.Atoi(v): (value, error); 0 with a syntax error
Atoi(v) ==
    CASE v = "-1" -> [val |-> -1, err |-> FALSE]
      [] v = "-5" -> [val |-> -5, err |-> FALSE]
      [] v = "3"  -> [val |-> 3, err |-> FALSE]
      [] OTHER    -> [val |-> 0, err |-> TRUE]

\* time.ParseDuration(v) in seconds: a number needs a unit suffix
ParseDuration(v) ==
    CASE v = "60s" -> [val |-> 60, err |-> FALSE]
      [] OTHER     -> [val |-> 0, err |-> TRUE]

\* the defaults of loadConfig
DefaultHigh == 75
DefaultLow == 30
DefaultMin == 1
DefaultMax == 5
DefaultCooldown == 120
DefaultInterval == 30

\* must: the process dies when a required variable is empty
must(e, key) == [val |-> e[key], fatal |-> e[key] = ""]

\* parseDur giving the zero duration for a variable that is not set
parseDurNoDefault(e, k, def) == ParseDuration(e[k]).val

\* parseF, parseI, parseDur: the parse error is discarded
parseF(e, k, def) == IF e[k] # "" THEN ParseFloat(e[k]).val ELSE def
parseI(e, k, def) == IF e[k] # "" THEN Atoi(e[k]).val ELSE def
parseDur(e, k, def) == IF e[k] # "" THEN ParseDuration(e[k]).val ELSE def

\* whether loadConfig ends the process with log.Fatalf
loadConfigFatal(e) ==
    must(e, "RAILWAY_TOKEN").fatal \/ must(e, "SERVICE_ID").fatal

loadConfig(e) ==
    [Token     |-> must(e, "RAILWAY_TOKEN").val,
     ServiceID |-> must(e, "SERVICE_ID").val,
     High      |-> parseF(e, "CPU_HIGH", DefaultHigh),
     Low       |-> parseF(e, "CPU_LOW", DefaultLow),
     Min       |-> parseI(e, "MIN_REPLICAS", DefaultMin),
     Max       |-> parseI(e, "MAX_REPLICAS", DefaultMax),
     Cooldown  |-> parseDur(e, "COOLDOWN", DefaultCooldown),
     Interval  |-> parseDur(e, "POLL_INTERVAL", DefaultInterval)]

\* the zero value of config
ZeroConfig ==
    [Token |-> "", ServiceID |-> "", High |-> 0, Low |-> 0, Min |-> 0,
     Max |-> 0, Cooldown |-> 0, Interval |-> 0]

(* ------------------------------ fixed point ---------------------------- *)
RECURSIVE Gcd(_, _)
Gcd(a, b) == IF b = 0 THEN a ELSE Gcd(b, a % b)

RECURSIVE LcmUpTo(_)
LcmUpTo(n) == IF n <= 1 THEN 1 ELSE (LcmUpTo(n - 1) * n) \div Gcd(LcmUpTo(n - 1), n)

\* denominator of every CPU value held in a snapshot
Scale == LcmUpTo(MaxSamples)

(* --------------------------- remote responses -------------------------- *)
\* cpuPercent values a metric point may carry
CpuValues == {10, 30, 75, 90}

RECURSIVE SumSeq(_)
SumSeq(s) == IF s = <<>> THEN 0 ELSE Head(s) + SumSeq(Tail(s))

\* sum and count over all points of all instances
RECURSIVE SumAll(_)
SumAll(insts) == IF insts = <<>> THEN 0 ELSE SumSeq(Head(insts)) + SumAll(Tail(insts))

RECURSIVE CountAll(_)
CountAll(insts) == IF insts = <<>> THEN 0 ELSE Len(Head(insts)) + CountAll(Tail(insts))

SeqsUpTo(S, n) == UNION {[1..m -> S] : m \in 0..n}

\* gqlResponse as the platform may answer the metrics query:
\*   neterr  - http.DefaultClient.Do fails, there is no response
\*   garbage - the body does not decode into the target value
\*   errors  - a JSON object whose errors list is not empty (it may carry
\*             data as well)
\*   data    - a JSON object with data and no errors
FetchResponses ==
    {[kind |-> k, instances |-> <<>>, replicas |-> 0] :
        k \in {"neterr", "garbage"}}
    \cup
    {[kind |-> k, instances |-> i, replicas |-> r] :
        k \in {"errors", "data"},
        i \in {x \in SeqsUpTo(SeqsUpTo(CpuValues, MaxSamples), MaxSamples) :
                    CountAll(x) <= MaxSamples},
        r \in 0..MaxReported}

\* what a cycle remembers of the answer to its metrics query: its kind, the
\* number of metric points and the replica count it carried
NoResponse == [kind |-> "none", points |-> 0, replicas |-> 0]

\* the answers to the serviceReplicaScale mutation; applied tells whether the
\* platform changed the replica count.  A lost or undecodable answer says
\* nothing about whether the platform applied the request.
ScaleResponses ==
    {[kind |-> k, applied |-> a] :
        k \in {"neterr", "garbage", "errors", "data"}, a \in BOOLEAN}
    \ ({[kind |-> "errors", applied |-> TRUE]} \cup
       {[kind |-> "data", applied |-> FALSE]})

\* the remote end accepts the connection and never answers
SilentFetch == [kind |-> "silent", instances |-> <<>>, replicas |-> 0]

SilentScale == [kind |-> "silent", applied |-> FALSE]

\* http.DefaultClient.Timeout, the only limit on the duration of a call made
\* with the context of context.Background(): zero, which means no limit
ClientTimeout == 0

\* whether http.DefaultClient.Do comes back from a call answered by resp
returns(resp) == resp.kind # "silent" \/ ClientTimeout > 0

\* how long a remote call takes
CallTimes == {k * DefaultInterval : k \in 1..MaxCallTicks}

Nil == "nil"

\* doGraphQL: the error it returns (Nil for none)
doGraphQL(resp) ==
    IF resp.kind = "neterr" THEN "transport error"
    ELSE IF resp.kind = "silent" THEN "timeout error"
    ELSE IF resp.kind = "garbage" THEN "decode error"
    ELSE Nil

(* -------------------------------- fetch -------------------------------- *)
\* snapshot{}
ZeroSnapshot == [avgCPU |-> 0, replicas |-> 0]

\* fetch without the check of resp.Errors
fetchIgnoresErrors(resp) ==
    IF doGraphQL(resp) # Nil THEN ZeroSnapshot
    ELSE LET sum == SumAll(resp.instances)
             count == CountAll(resp.instances)
             avg == IF count > 0 THEN (sum * Scale) \div count ELSE 0
         IN [avgCPU |-> avg, replicas |-> resp.replicas]

fetch(resp) ==
    IF doGraphQL(resp) # Nil THEN ZeroSnapshot
    ELSE IF resp.kind = "errors" THEN ZeroSnapshot
    ELSE LET sum == SumAll(resp.instances)
             count == CountAll(resp.instances)
             avg == IF count > 0 THEN (sum * Scale) \div count ELSE 0
         IN [avgCPU |-> avg, replicas |-> resp.replicas]

\* the lines fetch writes to the log
fetchLog(resp) ==
    IF doGraphQL(resp) # Nil THEN {"gql err"}
    ELSE IF resp.kind = "errors" THEN {"gql errs"}
    ELSE {}

(* -------------------------------- decide ------------------------------- *)
\* decide without the upper guard of its first case
decideNoMaxGuard(cpu, replicas, c) ==
    IF cpu > c.High * Scale THEN replicas + 1
    ELSE IF cpu < c.Low * Scale /\ replicas > c.Min THEN replicas - 1
    ELSE replicas

\* decide stepping down from minReplicas as well
decideMinInclusive(cpu, replicas, c) ==
    IF cpu > c.High * Scale /\ replicas < c.Max THEN replicas + 1
    ELSE IF cpu < c.Low * Scale /\ replicas >= c.Min THEN replicas - 1
    ELSE replicas

\* decide with the thresholds themselves outside the deadband
decideInclusive(cpu, replicas, c) ==
    IF cpu >= c.High * Scale /\ replicas < c.Max THEN replicas + 1
    ELSE IF cpu <= c.Low * Scale /\ replicas > c.Min THEN replicas - 1
    ELSE replicas

\* decide testing the low threshold before the high one
decideDownFirst(cpu, replicas, c) ==
    IF cpu < c.Low * Scale /\ replicas > c.Min THEN replicas - 1
    ELSE IF cpu > c.High * Scale /\ replicas < c.Max THEN replicas + 1
    ELSE replicas

decide(cpu, replicas, c) ==
    IF cpu > c.High * Scale /\ replicas < c.Max THEN replicas + 1
    ELSE IF cpu < c.Low * Scale /\ replicas > c.Min THEN replicas - 1
    ELSE replicas

(* -------------------------------- scale -------------------------------- *)
scale(resp) == doGraphQL(resp)

(* -------------------------------- state -------------------------------- *)
VARIABLES
    env,        \* the process environment
    pc,         \* "start", "fetch", "actuate", "sleep", "exit", or "blocked"
                \* inside a remote call that does not return
    cfg,        \* main's cfg
    now,        \* the clock
    lastScale,  \* main's lastScale
    target,     \* the snapshot of the current cycle
    fetched,    \* summary of the answer to this cycle's metrics query
    sent,       \* the replica counts this cycle sent to the platform
    scaled,     \* kind of the answer to the mutation of the latest cycle that
                \* got to line 129 ("none" when it made no call)
    logs,       \* the lines this cycle logged
    lastEffect, \* when a mutation last took effect on the platform (-1: never)
    lastOk,     \* when scale last returned without an error (-1: never)
    firstCycle, \* the loop is in its first iteration
    load,       \* "high" or "low" in a run under sustained load, else "any"
    platform    \* under sustained load: the replica count of the service,
                \* which only the mutations of this process change

vars == <<env, pc, cfg, now, lastScale, target, fetched, sent, scaled, logs,
          lastEffect, lastOk, firstCycle, load, platform>>

Init ==
    /\ env \in Envs
    /\ pc = "start"
    /\ cfg = ZeroConfig
    /\ now = 0
    /\ lastScale = 0
    /\ target = ZeroSnapshot
    /\ fetched = NoResponse
    /\ sent = <<>>
    /\ scaled = "none"
    /\ logs = {}
    /\ lastEffect = -1
    /\ lastOk = -1
    /\ firstCycle = TRUE
    /\ load = "any"
    /\ platform = 0

\* lastScale starting at the time of startup
initialLastScaleNow(t, cooldown) == t

\* line 123: time.Now().Add(-cfg.Cooldown)
initialLastScale(t, cooldown) == t - cooldown

\* a cycle ending the process when a remote call returned an error
nextPcFatal(at, err) ==
    IF err # Nil THEN "exit"
    ELSE IF at = "fetch" THEN "actuate"
    ELSE IF at = "actuate" THEN "sleep"
    ELSE "fetch"

\* a cycle repeating its mutation when scale returned an error
nextPcRetry(at, err) ==
    IF at = "fetch" THEN "actuate"
    ELSE IF at = "actuate" THEN (IF err # Nil THEN "actuate" ELSE "sleep")
    ELSE "fetch"

\* the body of the for loop, lines 125-138: where control goes after the
\* step at `at` whose remote call (if any) returned err
nextPc(at, err) ==
    IF at = "fetch" THEN "actuate"
    ELSE IF at = "actuate" THEN "sleep"
    ELSE "fetch"

\* main, lines 121-123: loadConfig and the initial lastScale
Startup ==
    /\ pc = "start"
    /\ IF loadConfigFatal(env)
       THEN /\ pc' = "exit"
            /\ UNCHANGED <<cfg, lastScale>>
       ELSE /\ cfg' = loadConfig(env)
            /\ lastScale' = initialLastScale(now, cfg'.Cooldown)
            /\ pc' = "fetch"
    /\ UNCHANGED <<env, now, target, fetched, sent, scaled, logs, lastEffect, lastOk,
                   firstCycle, load, platform>>

\* main, line 126: target := fetch(ctx, cfg)
Fetch ==
    /\ pc = "fetch"
    /\ \E resp \in FetchResponses \cup {SilentFetch}, d \in CallTimes :
        /\ fetched' = [kind |-> resp.kind, points |-> CountAll(resp.instances),
                        replicas |-> resp.replicas]
        /\ IF returns(resp)
           THEN /\ now + d <= MaxTime
                /\ now' = now + d
                /\ target' = fetch(resp)
                /\ logs' = fetchLog(resp)
                /\ pc' = nextPc("fetch", doGraphQL(resp))
           ELSE /\ pc' = "blocked"
                /\ UNCHANGED <<now, target, logs>>
    /\ load = "any"
    /\ UNCHANGED <<env, cfg, lastScale, sent, scaled, lastEffect, lastOk, firstCycle,
                   load, platform>>

\* the gate opening already when exactly cooldown has elapsed
gateInclusive(desired, replicas, elapsed, cooldown) ==
    desired # replicas /\ elapsed >= cooldown

\* the cooldown gate of line 129
gate(desired, replicas, elapsed, cooldown) ==
    desired # replicas /\ elapsed > cooldown

\* lastScale never moved, whatever scale returned
afterScaleStale(err, t, old) == old

\* lastScale after scale returned err at time t
afterScale(err, t, old) == IF err = Nil THEN t ELSE old

\* the mutation carrying one replica more than it was asked for
scaleCountOffByOne(desired) == desired + 1

\* scale, line 211: the count the mutation carries
scaleCount(desired) == desired

\* main, lines 127-136: decide, the gate, scale and its outcome
Actuate ==
    /\ pc = "actuate"
    /\ load = "any"
    /\ LET desired == decide(target.avgCPU, target.replicas, cfg) IN
        IF gate(desired, target.replicas, now - lastScale, cfg.Cooldown)
        THEN \E resp \in ScaleResponses \cup {SilentScale}, d \in CallTimes :
                /\ sent' = Append(sent, scaleCount(desired))
                /\ scaled' = resp.kind
                /\ IF returns(resp)
                   THEN /\ now + d <= MaxTime
                        /\ now' = now + d
                        /\ lastScale' = afterScale(scale(resp), now', lastScale)
                        /\ logs' = IF scale(resp) = Nil THEN logs
                                    ELSE logs \cup {"scale error"}
                        /\ lastEffect' = IF resp.applied THEN now' ELSE lastEffect
                        /\ lastOk' = IF scale(resp) = Nil THEN now' ELSE lastOk
                        /\ pc' = nextPc("actuate", scale(resp))
                   ELSE /\ pc' = "blocked"
                        /\ UNCHANGED <<now, lastScale, logs, lastEffect, lastOk>>
        ELSE /\ scaled' = "none"
             /\ pc' = nextPc("actuate", Nil)
             /\ UNCHANGED <<now, sent, lastScale, logs, lastEffect, lastOk>>
    /\ UNCHANGED <<env, cfg, target, fetched, firstCycle, load, platform>>

\* main, line 137: time.Sleep(cfg.Interval); the cycle's locals go out of scope
Sleep ==
    /\ pc = "sleep"
    /\ load = "any"
    /\ now' = now + (IF cfg.Interval > 0 THEN cfg.Interval ELSE 0)
    /\ now' <= MaxTime
    /\ target' = ZeroSnapshot
    /\ fetched' = NoResponse
    /\ sent' = <<>>
    /\ logs' = {}
    /\ firstCycle' = FALSE
    /\ pc' = nextPc("sleep", Nil)
    /\ UNCHANGED <<env, cfg, lastScale, scaled, lastEffect, lastOk, load, platform>>

Next == Startup \/ Fetch \/ Actuate \/ Sleep

Spec == Init /\ [][Next]_vars

(* ------------------------- runs under sustained load ------------------- *)
\* The loop of main again, for runs of any length in which every snapshot is
\* above the high threshold (or every one below the low threshold), every
\* remote call succeeds and the platform reports the count it was last told.
\* Time is measured from the present: instead of advancing now, a step moves
\* lastScale into the past, and no further than just beyond cooldown, which
\* is all that line 129 can tell.

\* the policy invariants: low < high and 0 < min <= max
ValidPolicy(c) == c.Low < c.High /\ 0 < c.Min /\ c.Min <= c.Max

\* some optional variable is set to a value its parser rejects
Unparseable(e) ==
    \/ \E k \in {"CPU_HIGH", "CPU_LOW"} : e[k] # "" /\ ParseFloat(e[k]).err
    \/ \E k \in {"MIN_REPLICAS", "MAX_REPLICAS"} : e[k] # "" /\ Atoi(e[k]).err
    \/ \E k \in {"COOLDOWN", "POLL_INTERVAL"} : e[k] # "" /\ ParseDuration(e[k]).err

\* the answers to the metrics query under the sustained load l, for a service
\* of r replicas and the configuration c
SustainedResponses(l, r, c) ==
    {resp \in FetchResponses :
        /\ resp.kind = "data"
        /\ resp.replicas = r
        /\ CountAll(resp.instances) > 0
        /\ l = "high" => fetch(resp).avgCPU > c.High * Scale
        /\ l = "low" => fetch(resp).avgCPU < c.Low * Scale}

\* lastScale after d more seconds have passed, seen from the present
elapse(last, d, cooldown) ==
    IF now - (last - d) > cooldown THEN now - cooldown - 1
    ELSE last - d

SteadyInit ==
    /\ env \in {e \in Envs :
                /\ ~loadConfigFatal(e)
                /\ ~Unparseable(e)
                /\ ValidPolicy(loadConfig(e))
                /\ loadConfig(e).Interval > 0}
    /\ load \in {l \in {"high", "low"} :
                SustainedResponses(l, 0, loadConfig(env)) # {}}
    /\ platform \in loadConfig(env).Min..loadConfig(env).Max
    /\ pc = "start"
    /\ cfg = ZeroConfig
    /\ now = 0
    /\ lastScale = 0
    /\ target = ZeroSnapshot
    /\ fetched = NoResponse
    /\ sent = <<>>
    /\ scaled = "none"
    /\ logs = {}
    /\ lastEffect = -1
    /\ lastOk = -1
    /\ firstCycle = TRUE

\* main, line 126, answered with the platform's count under the sustained load
SteadyFetch ==
    /\ pc = "fetch"
    /\ \E resp \in SustainedResponses(load, platform, cfg), d \in CallTimes :
        /\ lastScale' = elapse(lastScale, d, cfg.Cooldown)
        /\ target' = fetch(resp)
        /\ fetched' = [kind |-> resp.kind, points |-> CountAll(resp.instances),
                        replicas |-> resp.replicas]
        /\ logs' = fetchLog(resp)
        /\ pc' = nextPc("fetch", doGraphQL(resp))
    /\ UNCHANGED <<env, cfg, now, sent, scaled, lastEffect, lastOk, firstCycle,
                   load, platform>>

\* main, lines 127-136, with a mutation that succeeds and that the platform
\* applies
SteadyActuate ==
    /\ pc = "actuate"
    /\ LET desired == decide(target.avgCPU, target.replicas, cfg)
           resp == [kind |-> "data", applied |-> TRUE]
       IN
        IF gate(desired, target.replicas, now - lastScale, cfg.Cooldown)
        THEN /\ sent' = Append(sent, scaleCount(desired))
             /\ scaled' = resp.kind
             /\ platform' = scaleCount(desired)
             /\ lastScale' = afterScale(scale(resp), now, lastScale)
             /\ pc' = nextPc("actuate", scale(resp))
        ELSE /\ scaled' = "none"
             /\ pc' = nextPc("actuate", Nil)
             /\ UNCHANGED <<sent, lastScale, platform>>
    /\ UNCHANGED <<env, cfg, now, target, fetched, logs, lastEffect, lastOk,
                   firstCycle, load>>

\* main, line 137
SteadySleep ==
    /\ pc = "sleep"
    /\ lastScale' = elapse(lastScale, cfg.Interval, cfg.Cooldown)
    /\ target' = ZeroSnapshot
    /\ fetched' = NoResponse
    /\ sent' = <<>>
    /\ logs' = {}
    /\ firstCycle' = FALSE
    /\ pc' = nextPc("sleep", Nil)
    /\ UNCHANGED <<env, cfg, now, scaled, lastEffect, lastOk, load, platform>>

SteadyNext == Startup \/ SteadyFetch \/ SteadyActuate \/ SteadySleep

\* the process is never descheduled for good: main is the only goroutine and
\* in these runs every call it makes returns
SteadySpec == SteadyInit /\ [][SteadyNext]_vars /\ WF_vars(SteadyNext)

(* ------------------------------ properties ----------------------------- *)
\* the loop has started: loadConfig returned and a cycle is in progress
Running == pc \in {"fetch", "actuate", "sleep"}

\* a valid policy read from an environment in which every set value parses
LegalConfig == ValidPolicy(cfg) /\ ~Unparseable(env)

\* utilization values 0%, 5%, ..., 100% in fixed point
Utilizations == {5 * k * Scale : k \in 0..20}

\* what decide returns for the snapshot of the current cycle
desiredNow == decide(target.avgCPU, target.replicas, cfg)

\* C1: under a valid policy, for every utilization and every currentReplicas
\* in [minReplicas, maxReplicas], decide returns a value in
\* [minReplicas, maxReplicas]; so at maxReplicas it never returns more and at
\* minReplicas never less.
C1_DecideStaysInBand ==
    (pc = "fetch" /\ ValidPolicy(cfg)) =>
        \A cpu \in Utilizations, r \in cfg.Min..cfg.Max :
            decide(cpu, r, cfg) \in cfg.Min..cfg.Max

\* a cycle that saw maxReplicas replicas above the high threshold and sent nothing
C1_Witness ==
    /\ pc = "sleep"
    /\ ValidPolicy(cfg)
    /\ fetched.kind = "data"
    /\ target.replicas = cfg.Max
    /\ target.avgCPU > cfg.High * Scale
    /\ sent = <<>>

\* C2: in a cycle whose desired count differs from the snapshot's count the
\* mutation is invoked if and only if strictly more than cooldown has elapsed
\* since lastScale; otherwise nothing is sent and lastScale keeps its value.
C2_CooldownGate ==
    [][(pc = "actuate" /\ desiredNow # target.replicas) =>
        /\ (sent' # sent) <=> (now - lastScale > cfg.Cooldown)
        /\ (now - lastScale <= cfg.Cooldown) => (lastScale' = lastScale /\ scaled' = "none")]_vars

\* a genuine change suppressed when exactly cooldown has elapsed
C2_Witness ==
    /\ pc = "sleep"
    /\ desiredNow # target.replicas
    /\ cfg.Cooldown > 0
    /\ now - lastScale = cfg.Cooldown
    /\ sent = <<>>

\* C3 as stated: under a valid policy, two consecutive mutations that take
\* effect on the platform are at least cooldown apart.
C3_EffectsCooldownApart ==
    [][(LegalConfig /\ lastEffect' # lastEffect /\ lastEffect >= 0) =>
        lastEffect' - lastEffect >= cfg.Cooldown]_vars

\* C3, amended: once a mutation call has returned without an error, no further
\* mutation is invoked until strictly more than cooldown has passed since that
\* return, however many cycles lie in between.  (A call that returned an
\* error sets no timestamp, whether or not the platform applied it.)
C3_CooldownAfterSuccessfulCall ==
    [][(pc = "actuate" /\ sent' # sent /\ lastOk >= 0) =>
        now - lastOk > cfg.Cooldown]_vars

\* a mutation invoked (and failing) after an earlier call had succeeded
C3_Witness ==
    /\ pc = "sleep"
    /\ sent # <<>>
    /\ scaled \in {"neterr", "garbage"}
    /\ lastOk >= 0
    /\ cfg.Cooldown > 0

\* C4 as stated: a mutation that was invoked and failed leaves lastScale as it
\* was, and lastScale moves only in a cycle whose mutation succeeded.
C4_TimestampOnlyOnSuccess ==
    [][(pc = "actuate" /\ LegalConfig) =>
        /\ (scaled' \in {"neterr", "garbage", "errors"}) => lastScale' = lastScale
        /\ (lastScale' # lastScale) => scaled' = "data"]_vars

\* the loop's gate is open: more than cooldown has passed since lastScale
GateOpen == now - lastScale > cfg.Cooldown

\* C5 as stated: a mutation the platform rejects with an error payload leaves
\* lastScale untouched and is logged as a scale error.
C5_RejectionIsFailure ==
    [][(pc = "actuate" /\ LegalConfig /\ scaled' = "errors") =>
        (lastScale' = lastScale /\ "scale error" \in logs')]_vars

\* the fetch of this cycle failed: transport, decoding or a remote error list
FetchFailed == fetched.kind \in {"neterr", "garbage", "errors"}

\* C6 as stated: after any fetch failure the snapshot is the zero snapshot and
\* the cycle invokes no mutation and keeps lastScale, for every policy
\* (low < high, min <= max) with minReplicas >= 1.
C6_FailedFetchIsNoOp ==
    [][(pc = "actuate" /\ FetchFailed /\ LegalConfig) =>
        (target = ZeroSnapshot /\ sent' = sent /\ lastScale' = lastScale)]_vars

\* C6, amended: the same for every configuration with minReplicas >= 1 and
\* highThreshold >= 0 (0% CPU is above a negative high threshold).
C6_FailedFetchIsNoOpNonNegHigh ==
    [][(pc = "actuate" /\ FetchFailed /\ cfg.Min >= 1 /\ cfg.High >= 0) =>
        (target = ZeroSnapshot /\ sent' = sent /\ lastScale' = lastScale)]_vars

\* a cycle whose fetch got a remote error list ended with the gate open and
\* nothing sent
C6_Witness ==
    /\ pc = "sleep"
    /\ fetched.kind = "errors"
    /\ fetched.replicas > 0
    /\ cfg.Min >= 1
    /\ cfg.High >= 0
    /\ GateOpen
    /\ target = ZeroSnapshot
    /\ sent = <<>>

\* the fetch of this cycle succeeded and carried no metric point
ZeroSamples == fetched.kind = "data" /\ fetched.points = 0

\* this cycle sent a count below the one its snapshot holds
ScaledDown == sent # <<>> /\ sent[1] < target.replicas

\* C7 as stated: a successful fetch without samples gives the snapshot
\* {avgCPU: 0, replicas: 0} and, with minReplicas >= 1, no scale-down executes.
C7_ZeroSamplesZeroSnapshot ==
    (pc \in {"actuate", "sleep"} /\ ZeroSamples /\ LegalConfig) =>
        (target = ZeroSnapshot /\ ~ScaledDown)

\* C7, amended: a successful fetch without samples gives avgCPU 0 paired with
\* the replica count the platform reported; with minReplicas >= 1 no scale-down
\* executes when that count is at most minReplicas (0 in particular).
C7_ZeroSamplesKeepReported ==
    (pc \in {"actuate", "sleep"} /\ ZeroSamples) =>
        /\ target = [avgCPU |-> 0, replicas |-> fetched.replicas]
        /\ (cfg.Min >= 1 /\ fetched.replicas <= cfg.Min) => ~ScaledDown

\* no samples, minReplicas reported, below a positive low threshold, gate open:
\* nothing was sent
C7_Witness ==
    /\ pc = "sleep"
    /\ ZeroSamples
    /\ cfg.Min >= 1
    /\ fetched.replicas = cfg.Min
    /\ cfg.Low > 0
    /\ GateOpen
    /\ sent = <<>>

\* C8 as stated: under a valid policy every replica count the loop sends lies
\* in [minReplicas, maxReplicas], whatever count and utilization were reported.
C8_SentInBand ==
    LegalConfig => \A i \in DOMAIN sent : sent[i] \in cfg.Min..cfg.Max

\* C9 as stated: the loop runs only with a valid policy, and an unparseable
\* value ends the process at startup.
C9_LoopHasValidPolicy ==
    Running => (ValidPolicy(cfg) /\ ~Unparseable(env))

\* C10: with lowThreshold <= utilization <= highThreshold decide returns
\* currentReplicas for every currentReplicas, and the cycle sends nothing.
C10_Deadband ==
    (pc \in {"actuate", "sleep"}
        /\ cfg.Low * Scale <= target.avgCPU /\ target.avgCPU <= cfg.High * Scale) =>
        /\ \A r \in 0..(MaxReported + 1) : decide(target.avgCPU, r, cfg) = r
        /\ sent = <<>>

\* utilization exactly at the high threshold, room to scale up, gate open
C10_Witness ==
    /\ pc = "sleep"
    /\ fetched.points > 0
    /\ target.avgCPU = cfg.High * Scale
    /\ cfg.Low < cfg.High
    /\ cfg.Min < target.replicas /\ target.replicas < cfg.Max
    /\ GateOpen
    /\ sent = <<>>

\* C11: for every utilization and every currentReplicas decide returns
\* currentReplicas - 1, currentReplicas or currentReplicas + 1: the larger
\* exactly when utilization > highThreshold and currentReplicas < maxReplicas,
\* otherwise the smaller exactly when utilization < lowThreshold and
\* currentReplicas > minReplicas, otherwise currentReplicas itself.  With the
\* default policy decide(80, 2) = 3 and decide(20, 2) = 1.
C11_DecideCases ==
    (pc = "fetch") =>
        /\ \A cpu \in Utilizations, r \in 0..(MaxReported + 1) :
            LET up == cpu > cfg.High * Scale /\ r < cfg.Max
                down == ~up /\ cpu < cfg.Low * Scale /\ r > cfg.Min
                d == decide(cpu, r, cfg)
            IN  /\ d \in {r - 1, r, r + 1}
                /\ (d = r + 1) <=> up
                /\ (d = r - 1) <=> down
        /\ (cfg.High = 75 /\ cfg.Low = 30 /\ cfg.Min = 1 /\ cfg.Max = 5) =>
            (decide(80 * Scale, 2, cfg) = 3 /\ decide(20 * Scale, 2, cfg) = 1)

\* a cycle whose snapshot met both cases (thresholds out of order): it sent
\* one replica more
C11_Witness ==
    /\ pc = "sleep"
    /\ target.avgCPU > cfg.High * Scale /\ target.replicas < cfg.Max
    /\ target.avgCPU < cfg.Low * Scale /\ target.replicas > cfg.Min
    /\ sent = <<target.replicas + 1>>

\* the latest cycle that got to line 129 called scale and got an error back
ScaleReturnedError == scaled \in {"neterr", "garbage"}

\* C12: no outcome of a cycle ends the process: after a fetch failure, a scale
\* failure, a suppressed change or a no-change decision the loop goes on to
\* sleep, and after the sleep to the next fetch; once the loop has started no
\* step leads to the exit.
C12_LoopNeverExits ==
    [][(Running /\ pc' # "blocked") =>
        /\ pc' # "exit"
        /\ pc = "fetch" => pc' = "actuate"
        /\ pc = "actuate" => pc' = "sleep"
        /\ pc = "sleep" => pc' = "fetch"]_vars

\* a cycle begins after one whose mutation call returned an error
C12_Witness ==
    /\ pc = "fetch"
    /\ ~firstCycle
    /\ ScaleReturnedError

\* C13 as stated: both remote calls are bounded by a network timeout, so a
\* call that was started is never left waiting for an answer that does not
\* come.
C13_RemoteCallsReturn == pc # "blocked"

\* C14: the first cycle after startup is eligible to scale: lastScale still is
\* startup minus cooldown, and if the first snapshot yields a desired count
\* different from the current one the mutation is invoked in that cycle.
C14_FirstCycleEligible ==
    [][(pc = "actuate" /\ firstCycle /\ desiredNow # target.replicas) =>
        /\ lastScale = 0 - cfg.Cooldown
        /\ sent' = <<desiredNow>>]_vars

\* the first cycle, under a positive cooldown, has sent a mutation
C14_Witness ==
    /\ pc = "sleep"
    /\ firstCycle
    /\ cfg.Cooldown > 0
    /\ sent # <<>>

\* C15: a cycle makes at most one mutation call; a call that failed is not
\* repeated within the cycle.
C15_OneMutationPerCycle == Len(sent) <= 1

\* a cycle whose single call returned an error ended with the gate still open
C15_Witness ==
    /\ pc = "sleep"
    /\ ScaleReturnedError
    /\ GateOpen
    /\ Len(sent) = 1

\* C16: an optional setting that is not specified takes its default: high
\* threshold 75, low threshold 30, minimum 1, maximum 5, cooldown 120 s, poll
\* interval 30 s; each whether or not the other settings are specified.
C16_Defaults ==
    Running =>
        /\ env["CPU_HIGH"] = "" => cfg.High = 75
        /\ env["CPU_LOW"] = "" => cfg.Low = 30
        /\ env["MIN_REPLICAS"] = "" => cfg.Min = 1
        /\ env["MAX_REPLICAS"] = "" => cfg.Max = 5
        /\ env["COOLDOWN"] = "" => cfg.Cooldown = 120
        /\ env["POLL_INTERVAL"] = "" => cfg.Interval = 30

\* the loop runs with the default cooldown beside two settings that were given
C16_Witness ==
    /\ Running
    /\ env["COOLDOWN"] = ""
    /\ env["MAX_REPLICAS"] # ""
    /\ env["CPU_LOW"] # ""
    /\ cfg.Cooldown = 120
    /\ cfg.Max # 5

\* C17 as stated: failures do not consume the cooldown: when the mutation call
\* of a cycle failed (a transport or decoding error, or a rejection by the
\* platform), the next cycle whose snapshot yields a desired count different
\* from the current one invokes the mutation again.
C17_FailureKeepsGateOpen ==
    [][(pc = "actuate" /\ LegalConfig
            /\ scaled \in {"neterr", "garbage", "errors"}
            /\ desiredNow # target.replicas) =>
        sent' # sent]_vars

\* C18: a suppressed decision is not kept for later: a cycle sends either
\* nothing or the value decide computed from the snapshot fetched in that
\* same cycle, which is that snapshot's replica count plus or minus one; a
\* cycle whose own snapshot yields no change sends nothing, whatever earlier
\* cycles wanted.
C18_SendsOwnDecision ==
    [][(pc = "actuate") =>
        /\ \/ sent' = sent
           \/ /\ sent' = <<desiredNow>>
              /\ desiredNow \in {target.replicas - 1, target.replicas + 1}
        /\ (desiredNow = target.replicas) => sent' = sent]_vars

\* a cycle after the first, later than one cooldown after startup, scaled
\* down by one from its own snapshot
C18_Witness ==
    /\ pc = "sleep"
    /\ ~firstCycle
    /\ cfg.Cooldown > 0
    /\ scaled = "data"
    /\ lastEffect > cfg.Cooldown
    /\ sent = <<target.replicas - 1>>

\* C19: with minReplicas <= maxReplicas decide never moves the count further
\* from the band: at or above maxReplicas the result is at most the current
\* count, at or below minReplicas at least the current count, for every
\* utilization.
C19_NeverAwayFromBand ==
    (pc = "fetch" /\ cfg.Min <= cfg.Max) =>
        \A cpu \in Utilizations, r \in 0..(MaxReported + 1) :
            /\ r >= cfg.Max => decide(cpu, r, cfg) <= r
            /\ r <= cfg.Min => decide(cpu, r, cfg) >= r

\* more replicas than maxReplicas reported above the high threshold, gate
\* open: nothing was sent
C19_Witness ==
    /\ pc = "sleep"
    /\ cfg.Min <= cfg.Max
    /\ fetched.kind = "data"
    /\ target.replicas > cfg.Max
    /\ target.avgCPU > cfg.High * Scale
    /\ GateOpen
    /\ sent = <<>>

\* the count a run under sustained load is to end at
Goal == IF load = "high" THEN cfg.Max ELSE cfg.Min

\* C20: under sustained load (every snapshot above the high threshold, every
\* fetch and mutation succeeding, the platform reporting the count last
\* commanded, a positive poll interval) and from a count in
\* [minReplicas, maxReplicas], the replica count eventually equals
\* maxReplicas and stays there; with every snapshot below the low threshold
\* it eventually equals minReplicas and stays there.
C20_Convergence == <>[](Running /\ platform = Goal)

\* under sustained high load a mutation of a cycle after the first has just
\* brought the service to maxReplicas
C20_Witness ==
    /\ pc = "sleep"
    /\ load = "high"
    /\ ~firstCycle
    /\ sent = <<cfg.Max>>
    /\ platform = cfg.Max
    /\ scaled = "data"

====
